---- MODULE Spec2Model ----
(***************************************************************************)
(* Donation-matching application (src/app.py, src/models.py).              *)
(*                                                                         *)
(* The store is the SQLite file social_mentor.db (app.py:8); db.create_all *)
(* (app.py:21-22) only adds missing tables, so the rows of earlier runs    *)
(* are there when the application starts.  Init is such a start-up store:  *)
(* four registered users, two available Donations, and a Task in status    *)
(* 'created' for the first Donation; the second Donation has no Task.      *)
(*                                                                         *)
(* Every request handler is one atomic action (one request, one session,   *)
(* one commit).  Spec runs the requests one at a time.  SpecRace splits    *)
(* accept_task at the point between its check of task.volunteer_id and its *)
(* writes, which is where two requests of a threaded server interleave.    *)
(* SpecMatch exercises the match listing over every form input, and        *)
(* SpecBadges starts the users at point totals around every threshold.     *)
(***************************************************************************)
EXTENDS Integers, Sequences, FiniteSets, TLC

\* ------------------------------------------------------------------ bounds
MaxClock == 2
MaxLog == 3
MaxRequests == 1

\* ------------------------------------------------------------ the schema
\* SQL NULL / Python None of a nullable column.  Row ids start at 1 and the
\* clock at 1, so 0 is never a real id or time, and it is falsy in Python.
NULL == 0

\* Registered users (rows of `users`): role and location never change.
Users == << [role |-> "donor",     location |-> "X"],
            [role |-> "volunteer", location |-> "X"],
            [role |-> "volunteer", location |-> "Y"],
            [role |-> "receiver",  location |-> "X"] >>
UserIds == DOMAIN Users
IsVolunteer(u) == Users[u].role = "volunteer"

\* Form inputs.  An empty location field falls back on the user's location.
ItemTypes == {"food", "clothes"}
FormLocations == {"", "X", "Y"}
\* Task(donation_id=...) : every other column takes its default.
NewTask(donation_id) ==
  [donation_id |-> donation_id, request_id |-> NULL, volunteer_id |-> NULL,
   status |-> "created", assigned_at |-> NULL, picked_up_at |-> NULL,
   delivered_at |-> NULL]

\* Donation(...) with status defaulting to 'available'.
NewDonation(donor_id, item_type, quantity, location) ==
  [donor_id |-> donor_id, item_type |-> item_type, quantity |-> quantity,
   location |-> location, status |-> "available"]

\* Request(...) with status defaulting to 'pending'.
NewRequest(receiver_id, item_type, location) ==
  [receiver_id |-> receiver_id, item_type |-> item_type,
   location |-> location, status |-> "pending"]

\* ActivityLog(task_id=, action=, actor_id=), timestamp defaulting to utcnow.
NewLog(task_id, action, actor_id, now) ==
  [task_id |-> task_id, action |-> action, actor_id |-> actor_id,
   timestamp |-> now]

VARIABLES
  points,         \* users.points, by user id
  badges,         \* users.badges, the comma-joined string, by user id
  donations,      \* rows of `donations`, id = index
  requests,       \* rows of `requests`, id = index
  tasks,          \* rows of `tasks`, id = index
  activity_logs,  \* rows of `activity_logs`, in insertion order
  clock,          \* datetime.utcnow()
  response,       \* the last request and what the client was told
  inflight        \* accept_task requests between check and write (SpecRace)

store == <<points, badges, donations, requests, tasks, activity_logs>>
vars == <<points, badges, donations, requests, tasks, activity_logs, clock,
          response, inflight>>

\* ------------------------------------------------------- points and badges
\* ','.join(badges)
RECURSIVE Join(_)
Join(list) ==
  IF list = <<>> THEN ""
  ELSE IF Len(list) = 1 THEN list[1]
  ELSE list[1] \o "," \o Join(Tail(list))

\* Mutant of update_badges: the thresholds compare with > instead of >=.
update_badges_strict(p) ==
  Join( (IF p > 10  THEN <<"Bronze Helper">>   ELSE <<>>) \o
        (IF p > 50  THEN <<"Silver Helper">>   ELSE <<>>) \o
        (IF p > 100 THEN <<"Gold Helper">>     ELSE <<>>) \o
        (IF p > 200 THEN <<"Platinum Helper">> ELSE <<>>) )

\* User.update_badges: four independent thresholds, in ascending order.
update_badges(p) ==
  Join( (IF p >= 10  THEN <<"Bronze Helper">>   ELSE <<>>) \o
        (IF p >= 50  THEN <<"Silver Helper">>   ELSE <<>>) \o
        (IF p >= 100 THEN <<"Gold Helper">>     ELSE <<>>) \o
        (IF p >= 200 THEN <<"Platinum Helper">> ELSE <<>>) )

\* User.get_badges_list: badges.split(',') of a non-empty column, else [].
\* No badge name holds a comma, so the split is the list whose join it is.
BadgeNames ==
  {"Bronze Helper", "Silver Helper", "Gold Helper", "Platinum Helper"}
BadgeLists == UNION { [1..n -> BadgeNames] : n \in 1..Cardinality(BadgeNames) }
get_badges_list(column) ==
  IF column = "" THEN <<>>
  ELSE CHOOSE list \in BadgeLists : Join(list) = column

\* User.add_points on user u: the new points and badges columns.
add_points_points(u, n) == [points EXCEPT ![u] = @ + n]
add_points_badges(u, n) == [badges EXCEPT ![u] = update_badges(points[u] + n)]

\* ------------------------------------------------------------- responses
\* What the client sent and what it was told (the flash message, or the
\* HTTP error when the request aborts).
Resp(outcome, matches) == [outcome |-> outcome, matches |-> matches]

\* Flash messages of the successful requests.
AcceptedMsg == "Task accepted! Please proceed with pickup."
DeliveredMsg == "Delivery completed! +15 points"
DonationCreatedMsg == "Donation created successfully! +10 points"

\* A handler that returns before writing, or whose commit is rolled back.
Reject(r) ==
  /\ response' = r
  /\ UNCHANGED <<store, clock, inflight>>

\* The id attribute of an object that was added to the session but not yet
\* flushed: the INSERT has not run, so no primary key has been assigned.
unflushed_id(row) == NULL

\* nullable=False columns: the INSERT fails with IntegrityError on NULL.
NotNullViolated(value) == value = NULL

\* ----------------------------------------------------------------- Init
SeedDonations ==
  << NewDonation(1, "food", 5, "X"), NewDonation(1, "clothes", 3, "X") >>
SeedTasks == << NewTask(1) >>

Init ==
  /\ points = [u \in UserIds |-> 0]
  /\ badges = [u \in UserIds |-> ""]
  /\ donations = SeedDonations
  /\ requests = <<>>
  /\ tasks = SeedTasks
  /\ activity_logs = <<>>
  /\ clock = 1
  /\ response = Resp("", {})
  /\ inflight = [u \in UserIds |-> NULL]

\* ------------------------------------------------------------ the clock
Tick ==
  /\ clock < MaxClock
  /\ clock' = clock + 1
  /\ UNCHANGED <<store, response, inflight>>

\* ------------------------------------------------------------ donor routes
\* POST /donor/create
create_donation(u, item_type, quantity, form_location) ==
  LET r(outcome) == Resp(outcome, {})
      donation == NewDonation(u, item_type, quantity,
                    IF form_location # "" THEN form_location
                    ELSE Users[u].location)
      \* line 156 reads donation.id right after session.add(donation)
      task == NewTask(unflushed_id(donation))
      new_donation_id == Len(donations) + 1
      new_task_id == Len(tasks) + 1
  IN IF Users[u].role # "donor" THEN Reject(r("Access denied"))
     ELSE IF NotNullViolated(task.donation_id)
       \* first commit (line 162) raises; the session is rolled back
       THEN Reject(r("IntegrityError"))
     ELSE /\ Len(activity_logs) < MaxLog
          /\ donations' = Append(donations, donation)
          /\ tasks' = Append(tasks, task)
          /\ points' = add_points_points(u, 10)
          /\ badges' = add_points_badges(u, 10)
          /\ activity_logs' = Append(activity_logs,
                 NewLog(new_task_id, "Donation created", u, clock))
          /\ response' = r(DonationCreatedMsg)
          /\ UNCHANGED <<requests, clock, inflight>>

\* --------------------------------------------------------- volunteer routes
\* Mutant of AlreadyAssigned: the check of line 224 is missing.
AlreadyAssigned_unchecked(task) == FALSE

\* line 224: if task.volunteer_id
AlreadyAssigned(task) == task.volunteer_id # NULL /\ task.volunteer_id # 0

\* Mutant of accept_write: volunteer_id is written only where it is still
\* NULL, while the request goes on to log and to report success.
accept_write_first_wins(u, task_id) ==
  /\ tasks' = [tasks EXCEPT
        ![task_id].volunteer_id = IF @ = NULL THEN u ELSE @,
        ![task_id].status = "assigned",
        ![task_id].assigned_at = clock]
  /\ donations' = [donations EXCEPT
                     ![tasks[task_id].donation_id].status = "matched"]
  /\ activity_logs' = Append(activity_logs,
         NewLog(task_id, "Task accepted by volunteer", u, clock))
  /\ UNCHANGED <<points, badges, requests>>

\* Mutant of accept_write: the Donation is not marked matched (line 233).
accept_write_keeps_donation(u, task_id) ==
  /\ tasks' = [tasks EXCEPT ![task_id].volunteer_id = u,
                            ![task_id].status = "assigned",
                            ![task_id].assigned_at = clock]
  /\ activity_logs' = Append(activity_logs,
         NewLog(task_id, "Task accepted by volunteer", u, clock))
  /\ UNCHANGED <<points, badges, requests, donations>>

\* lines 228-239: the writes of accept_task, by user u on task task_id
accept_write(u, task_id) ==
  /\ tasks' = [tasks EXCEPT ![task_id].volunteer_id = u,
                            ![task_id].status = "assigned",
                            ![task_id].assigned_at = clock]
  /\ donations' = [donations EXCEPT
                     ![tasks[task_id].donation_id].status = "matched"]
  /\ activity_logs' = Append(activity_logs,
         NewLog(task_id, "Task accepted by volunteer", u, clock))
  /\ UNCHANGED <<points, badges, requests>>

\* Mutant of accept_refusal: the role check (lines 218-220) is missing.
accept_refusal_any_role(u, task_id) ==
  IF task_id \notin DOMAIN tasks THEN "404"
  ELSE IF AlreadyAssigned(tasks[task_id]) THEN "Task already assigned"
  ELSE ""

\* lines 218-226: why accept_task returns before writing ("" when it goes on)
accept_refusal(u, task_id) ==
  IF Users[u].role # "volunteer" THEN "Access denied"
  ELSE IF task_id \notin DOMAIN tasks THEN "404"
  ELSE IF AlreadyAssigned(tasks[task_id]) THEN "Task already assigned"
  ELSE ""

\* GET /volunteer/accept/<task_id>, run without interruption
accept_task(u, task_id) ==
  IF accept_refusal(u, task_id) # ""
    THEN Reject(Resp(accept_refusal(u, task_id), {}))
  ELSE /\ Len(activity_logs) < MaxLog
       /\ accept_write(u, task_id)
       /\ response' = Resp(AcceptedMsg, {})
       /\ UNCHANGED <<clock, inflight>>

\* accept_task of a threaded server, first half: lines 218-226.  The request
\* that passes the checks holds the Task it read until it writes.
accept_begin(u, task_id) ==
  /\ inflight[u] = NULL
  /\ IF accept_refusal(u, task_id) # ""
       THEN Reject(Resp(accept_refusal(u, task_id), {}))
     ELSE /\ inflight' = [inflight EXCEPT ![u] = task_id]
          /\ UNCHANGED <<store, clock, response>>

\* accept_task of a threaded server, second half: lines 228-241.  The UPDATE
\* carries no condition on volunteer_id.
accept_commit(u) ==
  /\ inflight[u] # NULL
  /\ Len(activity_logs) < MaxLog
  /\ accept_write(u, inflight[u])
  /\ response' = Resp(AcceptedMsg, {})
  /\ inflight' = [inflight EXCEPT ![u] = NULL]
  /\ UNCHANGED clock

\* Mutant of NotOwner: a Task nobody holds passes the ownership check.
NotOwner_unassigned_passes(task, u) ==
  task.volunteer_id # NULL /\ task.volunteer_id # u

\* line 252: if task.volunteer_id != current_user.id
NotOwner(task, u) == task.volunteer_id # u

\* Mutant of mark_picked_up: the pickup writes no ActivityLog row.
mark_picked_up_unlogged(u, task_id) ==
  /\ tasks' = [tasks EXCEPT ![task_id].status = "picked_up",
                            ![task_id].picked_up_at = clock]
  /\ UNCHANGED <<points, badges, donations, requests, activity_logs>>

\* lines 257-258
mark_picked_up(u, task_id) ==
  /\ tasks' = [tasks EXCEPT ![task_id].status = "picked_up",
                            ![task_id].picked_up_at = clock]
  /\ activity_logs' = Append(activity_logs,
         NewLog(task_id, "Items picked up", u, clock))
  /\ UNCHANGED <<points, badges, donations, requests>>

\* Mutant of mark_delivered: the linked Request is left as it is (line 270).
mark_delivered_keeps_request(u, task_id) ==
  LET task == tasks[task_id]
  IN /\ tasks' = [tasks EXCEPT ![task_id].status = "delivered",
                               ![task_id].delivered_at = clock]
     /\ donations' = [donations EXCEPT ![task.donation_id].status = "completed"]
     /\ points' = add_points_points(u, 15)
     /\ badges' = add_points_badges(u, 15)
     /\ requests' = requests
     /\ activity_logs' = Append(activity_logs,
            NewLog(task_id, "Items delivered", u, clock))

\* lines 261-272
mark_delivered(u, task_id) ==
  LET task == tasks[task_id]
  IN /\ tasks' = [tasks EXCEPT ![task_id].status = "delivered",
                               ![task_id].delivered_at = clock]
     /\ donations' = [donations EXCEPT ![task.donation_id].status = "completed"]
     /\ points' = add_points_points(u, 15)
     /\ badges' = add_points_badges(u, 15)
     /\ requests' = IF task.request_id # NULL /\ task.request_id # 0
                       THEN [requests EXCEPT ![task.request_id].status = "fulfilled"]
                       ELSE requests
     /\ activity_logs' = Append(activity_logs,
            NewLog(task_id, "Items delivered", u, clock))

\* Mutant of update_task: a status that is neither picked_up nor delivered is
\* written to the Task instead of being refused (lines 274-276).
update_task_any_status(u, task_id, status) ==
  LET r(outcome) == Resp(outcome, {})
  IN IF Users[u].role # "volunteer" THEN Reject(r("Access denied"))
     ELSE IF task_id \notin DOMAIN tasks THEN Reject(r("404"))
     ELSE IF NotOwner(tasks[task_id], u) THEN Reject(r("Not your task"))
     ELSE IF status = "picked_up"
       THEN /\ Len(activity_logs) < MaxLog
            /\ mark_picked_up(u, task_id)
            /\ response' = r("")
            /\ UNCHANGED <<clock, inflight>>
     ELSE IF status = "delivered"
       THEN /\ Len(activity_logs) < MaxLog
            /\ mark_delivered(u, task_id)
            /\ response' = r(DeliveredMsg)
            /\ UNCHANGED <<clock, inflight>>
     ELSE /\ tasks' = [tasks EXCEPT ![task_id].status = status]
          /\ response' = r("")
          /\ UNCHANGED <<points, badges, donations, requests, activity_logs,
                         clock, inflight>>

\* GET /volunteer/update/<task_id>/<status>
update_task(u, task_id, status) ==
  LET r(outcome) == Resp(outcome, {})
  IN IF Users[u].role # "volunteer" THEN Reject(r("Access denied"))
     ELSE IF task_id \notin DOMAIN tasks THEN Reject(r("404"))
     ELSE IF NotOwner(tasks[task_id], u) THEN Reject(r("Not your task"))
     ELSE IF status = "picked_up"
       THEN /\ Len(activity_logs) < MaxLog
            /\ mark_picked_up(u, task_id)
            /\ response' = r("")
            /\ UNCHANGED <<clock, inflight>>
     ELSE IF status = "delivered"
       THEN /\ Len(activity_logs) < MaxLog
            /\ mark_delivered(u, task_id)
            /\ response' = r(DeliveredMsg)
            /\ UNCHANGED <<clock, inflight>>
     ELSE Reject(r("Invalid status"))

\* ---------------------------------------------------------- receiver routes
\* Mutant of create_request: the role check (lines 325-327) is missing.
create_request_any_role(u, item_type, form_location) ==
  LET r(outcome) == Resp(outcome, {})
      req == NewRequest(u, item_type,
               IF form_location # "" THEN form_location
               ELSE Users[u].location)
  IN /\ Len(requests) < MaxRequests
     /\ requests' = Append(requests, req)
     /\ response' = r("Request submitted successfully!")
     /\ UNCHANGED <<points, badges, donations, tasks, activity_logs,
                    clock, inflight>>

\* POST /receiver/request
create_request(u, item_type, form_location) ==
  LET r(outcome) == Resp(outcome, {})
      req == NewRequest(u, item_type,
               IF form_location # "" THEN form_location
               ELSE Users[u].location)
  IN IF Users[u].role # "receiver" THEN Reject(r("Access denied"))
     ELSE /\ Len(requests) < MaxRequests
          /\ requests' = Append(requests, req)
          /\ response' = r("Request submitted successfully!")
          /\ UNCHANGED <<points, badges, donations, tasks, activity_logs,
                         clock, inflight>>

\* ---------------------------------------------------------- matching routes
\* Mutant of matching_donations: the location filter (line 364) is missing.
matching_donations_any_location(req) ==
  { d \in DOMAIN donations :
      /\ donations[d].status = "available"
      /\ donations[d].item_type = req.item_type }

\* lines 362-366: donations listed under a receiver's pending request
matching_donations(req) ==
  { d \in DOMAIN donations :
      /\ donations[d].status = "available"
      /\ donations[d].location = req.location
      /\ donations[d].item_type = req.item_type }

\* lines 382-386: requests listed under a donor's available donation
matching_requests(donation) ==
  { q \in DOMAIN requests :
      /\ requests[q].status = "pending"
      /\ requests[q].location = donation.location
      /\ requests[q].item_type = donation.item_type }

\* The listing of GET /match for user u, as pairs <<own record, counterpart>>;
\* a record of the user with no counterpart is left out (lines 368, 388).
SmartMatch(u) ==
  IF Users[u].role = "receiver"
    THEN { <<q, d>> \in (DOMAIN requests) \X (DOMAIN donations) :
             /\ requests[q].receiver_id = u
             /\ requests[q].status = "pending"
             /\ d \in matching_donations(requests[q]) }
  ELSE IF Users[u].role = "donor"
    THEN { <<d, q>> \in (DOMAIN donations) \X (DOMAIN requests) :
             /\ donations[d].donor_id = u
             /\ donations[d].status = "available"
             /\ q \in matching_requests(donations[d]) }
  ELSE {}

\* GET /match
smart_match(u) ==
  /\ response' = Resp(
        IF Users[u].role \in {"receiver", "donor"} THEN "match.html"
        ELSE "Use the dashboard to find tasks", SmartMatch(u))
  /\ UNCHANGED <<store, clock, inflight>>

\* line 408: Task.query.filter_by(donation_id=donation_id).first()
first_task(donation_id) ==
  LET found == { t \in DOMAIN tasks : tasks[t].donation_id = donation_id }
  IN IF found = {} THEN NULL
     ELSE CHOOSE t \in found : \A o \in found : t <= o

\* GET /match/connect/<donation_id>/<request_id>, by any logged-in user
connect_match(u, donation_id, request_id) ==
  LET r(outcome) == Resp(outcome, {})
      existing == first_task(donation_id)
      \* line 418 reads task.id; a Task made at line 410 is not flushed yet
      log_task_id == IF existing = NULL THEN unflushed_id(NewTask(donation_id))
                     ELSE existing
  IN IF donation_id \notin DOMAIN donations THEN Reject(r("404"))
     ELSE IF request_id \notin DOMAIN requests THEN Reject(r("404"))
     ELSE IF NotNullViolated(log_task_id)
       \* the commit (line 423) raises; the session is rolled back
       THEN Reject(r("IntegrityError"))
     ELSE /\ Len(activity_logs) < MaxLog
          /\ tasks' = [tasks EXCEPT ![existing].request_id = request_id]
          /\ donations' = [donations EXCEPT ![donation_id].status = "matched"]
          /\ requests' = [requests EXCEPT ![request_id].status = "matched"]
          /\ activity_logs' = Append(activity_logs,
                 NewLog(log_task_id, "Donation matched with request", u, clock))
          /\ response' = r("Match created! A volunteer can now pick this up.")
          /\ UNCHANGED <<points, badges, clock, inflight>>

\* ------------------------------------------------------ platform statistics
\* db.func.sum(Donation.quantity) over the Donations whose id is IN ids;
\* the sum over no row is NULL.
RECURSIVE SumQuantityIn(_, _)
SumQuantityIn(ids, d) ==
  IF d > Len(donations) THEN NULL
  ELSE (IF \E k \in DOMAIN ids : ids[k] = d THEN donations[d].quantity ELSE 0)
         + SumQuantityIn(ids, d + 1)

\* Mutant of DeliveredTask: every Task a volunteer has taken counts.
DeliveredTask_any_taken(task) == task.status # "created"

\* filter_by(status='delivered') of models.py lines 125 and 130
DeliveredTask(task) == task.status = "delivered"

\* Task.query.filter_by(status='delivered').all(), as the list of Task ids
\* from row i on.
RECURSIVE DeliveredTasksFrom(_)
DeliveredTasksFrom(i) ==
  IF i > Len(tasks) THEN <<>>
  ELSE (IF DeliveredTask(tasks[i]) THEN <<i>> ELSE <<>>)
         \o DeliveredTasksFrom(i + 1)

\* models.py get_platform_stats
get_platform_stats ==
  LET delivered == DeliveredTasksFrom(1)
      completed_donation_ids ==
        [k \in DOMAIN delivered |-> tasks[delivered[k]].donation_id]
      total == SumQuantityIn(completed_donation_ids, 1)
  IN [total_donations |-> Len(donations),
      completed_deliveries |-> Len(delivered),
      total_users |-> Cardinality(UserIds),
      total_volunteers |-> Cardinality({u \in UserIds : IsVolunteer(u)}),
      items_donated |-> IF total = NULL THEN 0 ELSE total]

\* GET / : the statistics handed to index.html
index ==
  /\ response' = [outcome |-> "index.html", matches |-> {},
                  stats |-> get_platform_stats]
  /\ UNCHANGED <<store, clock, inflight>>

\* ------------------------------------------------------ the specification
\* Ids a client can put in a URL: the rows that exist and one that does not.
TaskIdInputs == 1 .. (Len(tasks) + 1)
DonationIdInputs == 1 .. (Len(donations) + 1)
RequestIdInputs == 1 .. (Len(requests) + 1)
\* Status strings a client can put in /volunteer/update/<id>/<status>.
StatusInputs == {"picked_up", "delivered", "verified"}

DoCreateDonation ==
  \E u \in UserIds, l \in {"", "Y"} : create_donation(u, "food", 5, l)
DoAcceptTask == \E u \in UserIds, t \in TaskIdInputs : accept_task(u, t)
DoUpdateTask ==
  \E u \in UserIds, t \in TaskIdInputs, s \in StatusInputs : update_task(u, t, s)
DoCreateRequest == \E u \in UserIds : create_request(u, "food", "")
\* The match page, with its connect links, is shown to donors and receivers.
DoConnectMatch ==
  \E u \in {u \in UserIds : Users[u].role # "volunteer"},
     d \in DonationIdInputs, q \in RequestIdInputs :
    connect_match(u, d, q)

Next ==
  \/ Tick
  \/ DoCreateDonation
  \/ DoAcceptTask
  \/ DoUpdateTask
  \/ DoCreateRequest
  \/ DoConnectMatch

Spec == Init /\ [][Next]_vars

\* Concurrent accept_task requests, next to the volunteers' other requests.
DoAcceptBegin == \E u \in UserIds, t \in TaskIdInputs : accept_begin(u, t)
DoAcceptCommit == \E u \in UserIds : accept_commit(u)

NextRace ==
  \/ Tick
  \/ DoAcceptBegin
  \/ DoAcceptCommit
  \/ DoUpdateTask

SpecRace == Init /\ [][NextRace]_vars

\* The match listing over every form input.
DoCreateRequestAny ==
  \E u \in UserIds, i \in ItemTypes, l \in FormLocations :
    create_request(u, i, l)
DoSmartMatch == \E u \in UserIds : smart_match(u)

NextMatch ==
  \/ DoCreateRequestAny
  \/ DoSmartMatch
  \/ DoConnectMatch
  \/ DoAcceptTask

SpecMatch == Init /\ [][NextMatch]_vars

\* Point totals just below each badge threshold, so that one award of 15
\* lands on 50, 100 and 200; the badges column is what update_badges left.
SeedPoints == {0, 35, 85, 185}

InitBadges ==
  /\ points \in [UserIds -> SeedPoints]
  /\ \A u \in UserIds : ~IsVolunteer(u) => points[u] = 0
  /\ badges = [u \in UserIds |-> update_badges(points[u])]
  /\ donations = SeedDonations
  /\ requests = <<>>
  /\ tasks = SeedTasks
  /\ activity_logs = <<>>
  /\ clock = 1
  /\ response = Resp("", {})
  /\ inflight = [u \in UserIds |-> NULL]

NextBadges ==
  \/ DoCreateDonation
  \/ DoAcceptTask
  \/ DoUpdateTask

SpecBadges == InitBadges /\ [][NextBadges]_vars

\* Deliveries and the statistics page, on a store with a Task for each of
\* the two Donations.
InitStats ==
  /\ points = [u \in UserIds |-> 0]
  /\ badges = [u \in UserIds |-> ""]
  /\ donations = SeedDonations
  /\ requests = <<>>
  /\ tasks = << NewTask(1), NewTask(2) >>
  /\ activity_logs = <<>>
  /\ clock = 1
  /\ response = Resp("", {})
  /\ inflight = [u \in UserIds |-> NULL]

NextStats ==
  \/ DoAcceptTask
  \/ DoUpdateTask
  \/ index

SpecStats == InitStats /\ [][NextStats]_vars

\* The requests on a store in which the seeded Task is already linked: the
\* receiver's Request was connected to Donation 1 by an earlier connect_match
\* (its log row, which no handler reads, is not kept).
InitLinked ==
  /\ points = [u \in UserIds |-> 0]
  /\ badges = [u \in UserIds |-> ""]
  /\ donations = [SeedDonations EXCEPT ![1].status = "matched"]
  /\ requests = << [NewRequest(4, "food", "X") EXCEPT !.status = "matched"] >>
  /\ tasks = << [NewTask(1) EXCEPT !.request_id = 1] >>
  /\ activity_logs = <<>>
  /\ clock = 1
  /\ response = Resp("", {})
  /\ inflight = [u \in UserIds |-> NULL]

SpecLinked == InitLinked /\ [][Next]_vars

\* The four role-gated routes, each open to every logged-in user's browser.
NextRoles ==
  \/ DoCreateDonation
  \/ DoAcceptTask
  \/ DoUpdateTask
  \/ DoCreateRequest

SpecRoles == Init /\ [][NextRoles]_vars

\* Matching on the store with a Task for each of the two Donations: requests,
\* connect links and the volunteers' accepts.
NextPair ==
  \/ DoCreateRequest
  \/ DoConnectMatch
  \/ DoAcceptTask

SpecPair == InitStats /\ [][NextPair]_vars

\* ================================================================ claims
\* Position of a status in the lifecycle created, assigned, picked_up, delivered.
Rank(status) ==
  CASE status = "created" -> 0
    [] status = "assigned" -> 1
    [] status = "picked_up" -> 2
    [] status = "delivered" -> 3

\* C1: across every step, a Task's status either stays what it is or moves to
\* the next state of created, assigned, picked_up, delivered: it never moves
\* backward and never skips a state.
C1_StatusIsPrefixOfLifecycle ==
  [][\A t \in DOMAIN tasks :
        tasks'[t].status # tasks[t].status =>
          Rank(tasks'[t].status) = Rank(tasks[t].status) + 1]_vars

\* C2: in every state, a Donation is 'completed' exactly when its Task is
\* 'delivered'.
C2_CompletedIffDelivered ==
  \A t \in DOMAIN tasks :
    (donations[tasks[t].donation_id].status = "completed")
      <=> (tasks[t].status = "delivered")

\* C3: with requests run one at a time, accept_task by a volunteer on a Task
\* that already has a volunteer answers 'Task already assigned' and changes
\* nothing in the store, and no step changes a volunteer_id that is set.
C3_FirstAcceptPersists ==
  [][ /\ \A t \in DOMAIN tasks :
           tasks[t].volunteer_id # NULL =>
             tasks'[t].volunteer_id = tasks[t].volunteer_id
      /\ \A u \in UserIds, t \in DOMAIN tasks :
           (accept_task(u, t) /\ IsVolunteer(u) /\ tasks[t].volunteer_id # NULL)
             => (response'.outcome = "Task already assigned" /\ UNCHANGED store)
    ]_vars

\* C3 witness: a second accept was refused on a Task that keeps its volunteer.
C3_Witness ==
  /\ response.outcome = "Task already assigned"
  /\ \E t \in DOMAIN tasks : tasks[t].volunteer_id # NULL

\* C5: update_task by a volunteer who is not task.volunteer_id (the Task may
\* have no volunteer at all) answers 'Not your task' and leaves the store
\* (tasks, donations, requests, points, badges, activity log) unchanged, for
\* 'picked_up' and for 'delivered'.
C5_NotOwnerChangesNothing ==
  [][\A u \in UserIds, t \in DOMAIN tasks, s \in {"picked_up", "delivered"} :
        (update_task(u, t, s) /\ IsVolunteer(u) /\ tasks[t].volunteer_id # u)
          => (response'.outcome = "Not your task" /\ UNCHANGED store)]_vars

\* C5 witness: a volunteer was refused on a Task held by the other volunteer.
C5_Witness ==
  /\ response.outcome = "Not your task"
  /\ \E t \in DOMAIN tasks : tasks[t].volunteer_id # NULL

\* C7: create_donation by a donor succeeds; afterwards the new Donation is
\* 'available', exactly one Task has its id as donation_id (status 'created',
\* no volunteer), one ActivityLog row references that Task, and the donor has
\* 10 points more.
C7_CreateDonationCreatesTask ==
  [][\A u \in UserIds, l \in {"", "Y"} :
        (create_donation(u, "food", 5, l) /\ Users[u].role = "donor") =>
          LET d == Len(donations) + 1
              made == { t \in DOMAIN tasks' : tasks'[t].donation_id = d }
          IN /\ response'.outcome = DonationCreatedMsg
             /\ Len(donations') = d
             /\ donations'[d].status = "available"
             /\ Cardinality(made) = 1
             /\ \A t \in made : /\ tasks'[t].status = "created"
                                 /\ tasks'[t].volunteer_id = NULL
                                 /\ \E i \in DOMAIN activity_logs' :
                                       activity_logs'[i].task_id = t
             /\ points'[u] = points[u] + 10]_vars

\* C8: a successful update_task(task, 'delivered') by the Task's volunteer sets
\* the status to delivered, stamps delivered_at with the current time, sets the
\* Donation to completed, sets the linked Request (if any) to fulfilled and
\* changes no other Request, and adds exactly 15 points to that volunteer only.
C8_DeliveredEffects ==
  [][\A u \in UserIds, t \in DOMAIN tasks :
        (update_task(u, t, "delivered") /\ IsVolunteer(u)
           /\ tasks[t].volunteer_id = u) =>
          LET q == tasks[t].request_id
          IN /\ response'.outcome = DeliveredMsg
             /\ tasks'[t].status = "delivered"
             /\ tasks'[t].delivered_at = clock
             /\ tasks'[t].delivered_at # NULL
             /\ donations'[tasks[t].donation_id].status = "completed"
             /\ DOMAIN requests' = DOMAIN requests
             /\ \A x \in DOMAIN requests :
                   IF x = q THEN requests'[x].status = "fulfilled"
                   ELSE requests'[x] = requests[x]
             /\ points'[u] = points[u] + 15
             /\ \A o \in UserIds \ {u} : points'[o] = points[o]]_vars

\* C8 witness: a delivery was just made on a Task linked to a Request.
C8_Witness ==
  /\ response.outcome = DeliveredMsg
  /\ \E t \in DOMAIN tasks :
       /\ tasks[t].status = "delivered"
       /\ tasks[t].request_id # NULL
       /\ requests[tasks[t].request_id].status = "fulfilled"

\* C9: a successful accept_task by a volunteer on an unassigned Task sets
\* volunteer_id to the caller, status to assigned, assigned_at to the current
\* time and the Donation to matched; the Task's request link, the Requests and
\* all points stay as they were.
C9_AcceptEffects ==
  [][\A u \in UserIds, t \in DOMAIN tasks :
        (accept_task(u, t) /\ IsVolunteer(u) /\ tasks[t].volunteer_id = NULL) =>
          /\ response'.outcome = AcceptedMsg
          /\ tasks'[t].volunteer_id = u
          /\ tasks'[t].status = "assigned"
          /\ tasks'[t].assigned_at = clock
          /\ tasks'[t].assigned_at # NULL
          /\ donations'[tasks[t].donation_id].status = "matched"
          /\ tasks'[t].request_id = tasks[t].request_id
          /\ requests' = requests
          /\ points' = points]_vars

\* C9 witness: a Task linked to a Request was just accepted.
C9_Witness ==
  /\ response.outcome = AcceptedMsg
  /\ \E t \in DOMAIN tasks :
       /\ tasks[t].status = "assigned"
       /\ tasks[t].request_id # NULL
       /\ donations[tasks[t].donation_id].status = "matched"

\* Rows of the activity log written by accept_task for Task t.
AcceptRows(t) ==
  { i \in DOMAIN activity_logs :
      /\ activity_logs[i].task_id = t
      /\ activity_logs[i].action = "Task accepted by volunteer" }

\* C4: every accept_task request that read volunteer_id as NULL goes on to
\* write and to report success, whatever volunteer_id holds by then: the
\* writer's id replaces it and one more accept row is logged.  (That two
\* requests do so on one Task is the reachable state C4_Witness.)
C4_RacingAcceptsBothSucceed ==
  [][\A u \in UserIds :
        accept_commit(u) =>
          /\ response'.outcome = AcceptedMsg
          /\ tasks'[inflight[u]].volunteer_id = u
          /\ activity_logs' = Append(activity_logs,
                NewLog(inflight[u], "Task accepted by volunteer", u, clock))]_vars

\* C4 witness: two volunteers were both told their accept of the same Task
\* succeeded (two accept rows with different actors), and the Task holds the
\* id of the later writer.
C4_Witness ==
  \E t \in DOMAIN tasks : \E i, j \in AcceptRows(t) :
    /\ i < j
    /\ activity_logs[i].actor_id # activity_logs[j].actor_id
    /\ tasks[t].volunteer_id = activity_logs[j].actor_id
    /\ response.outcome = AcceptedMsg

\* The threshold table of the badges.
ThresholdTable ==
  << [at |-> 10,  badge |-> "Bronze Helper"],
     [at |-> 50,  badge |-> "Silver Helper"],
     [at |-> 100, badge |-> "Gold Helper"],
     [at |-> 200, badge |-> "Platinum Helper"] >>

\* The badges of the table that p points have earned, in the table's order.
RECURSIVE Earned(_, _)
Earned(p, i) ==
  IF i > Len(ThresholdTable) THEN <<>>
  ELSE (IF p >= ThresholdTable[i].at THEN <<ThresholdTable[i].badge>> ELSE <<>>)
         \o Earned(p, i + 1)

BadgeSet(u) ==
  { get_badges_list(badges[u])[i] : i \in DOMAIN get_badges_list(badges[u]) }

\* C6: in every state each user's stored badge list is the threshold table
\* applied to the user's points, and no step lowers a user's points or takes
\* a badge away.
C6_BadgesFollowPoints ==
  /\ [](\A u \in UserIds : get_badges_list(badges[u]) = Earned(points[u], 1))
  /\ [][\A u \in UserIds : /\ points'[u] >= points[u]
                            /\ BadgeSet(u) \subseteq BadgeSet(u)']_vars

\* C6 witness: the award for a delivery has taken a volunteer from 185 points
\* onto the Platinum threshold, and the volunteer holds all four badges.
C6_Witness ==
  /\ response.outcome = DeliveredMsg
  /\ \E u \in UserIds :
       /\ points[u] = 200
       /\ Len(get_badges_list(badges[u])) = 4
       /\ \E t \in DOMAIN tasks :
            tasks[t].volunteer_id = u /\ tasks[t].status = "delivered"

\* A Donation and a Request agree when item_type and location are equal.
Agree(d, q) ==
  /\ donations[d].item_type = requests[q].item_type
  /\ donations[d].location = requests[q].location

\* C10: for every Donation D of a donor and Request R of a receiver, R is
\* listed under D on the donor's match page exactly when D is available, R is
\* pending and the two agree in item_type and location, and exactly then D is
\* listed under R on the receiver's match page; a match page that was served
\* shows the listing of its user.
C10_MatchListingSymmetricExact ==
  /\ \A d \in DOMAIN donations, q \in DOMAIN requests :
       LET listed == /\ donations[d].status = "available"
                     /\ requests[q].status = "pending"
                     /\ Agree(d, q)
       IN /\ <<d, q>> \in SmartMatch(donations[d].donor_id) <=> listed
          /\ <<q, d>> \in SmartMatch(requests[q].receiver_id) <=> listed
  /\ response.outcome = "match.html" =>
       \E u \in UserIds : response.matches = SmartMatch(u)

\* C10 witness: a match page listing a pair was served while an available
\* Donation that differs from the pending Request in item_type is in the store.
C10_Witness ==
  /\ response.outcome = "match.html"
  /\ response.matches # {}
  /\ \E d \in DOMAIN donations, q \in DOMAIN requests :
       /\ donations[d].status = "available"
       /\ requests[q].status = "pending"
       /\ ~Agree(d, q)

\* Sum of quantity over a set of Donation ids.
RECURSIVE QuantityOf(_)
QuantityOf(ids) ==
  IF ids = {} THEN 0
  ELSE LET d == CHOOSE x \in ids : TRUE
       IN donations[d].quantity + QuantityOf(ids \ {d})

\* Donations with a Task that is delivered.
DeliveredDonations ==
  { d \in DOMAIN donations :
      \E t \in DOMAIN tasks :
        tasks[t].donation_id = d /\ tasks[t].status = "delivered" }

DonationRank(status) ==
  CASE status = "available" -> 0
    [] status = "matched" -> 1
    [] status = "completed" -> 2

\* C12: no request moves a Donation's status backwards in
\* available < matched < completed.
C12_DonationStatusOnlyForward ==
  [][\A d \in DOMAIN donations :
        DonationRank(donations'[d].status) >= DonationRank(donations[d].status)]_vars

\* Position of a Request status in pending < matched < fulfilled.
RequestRank(status) ==
  CASE status = "pending" -> 0
    [] status = "matched" -> 1
    [] status = "fulfilled" -> 2

\* C13: no request moves a Request's status backwards in
\* pending < matched < fulfilled.
C13_RequestStatusOnlyForward ==
  [][\A q \in DOMAIN requests :
        RequestRank(requests'[q].status) >= RequestRank(requests[q].status)]_vars

\* C14: connect_match on an existing Donation and an existing Request
\* succeeds whether or not the Donation has a Task: the Task found is reused,
\* or exactly one Task is created when there is none; afterwards that Task
\* points at the Request, both are matched, and exactly one log row for that
\* Task was appended.
C14_ConnectMatchSucceedsEitherWay ==
  [][\A u \in UserIds, d \in DOMAIN donations, q \in DOMAIN requests :
        connect_match(u, d, q) =>
          LET reused == first_task(d) # NULL
              t == IF reused THEN first_task(d) ELSE Len(tasks) + 1
          IN /\ response'.outcome = "Match created! A volunteer can now pick this up."
             /\ Len(tasks') = (IF reused THEN Len(tasks) ELSE Len(tasks) + 1)
             /\ tasks'[t].donation_id = d
             /\ tasks'[t].request_id = q
             /\ donations'[d].status = "matched"
             /\ requests'[q].status = "matched"
             /\ Len(activity_logs') = Len(activity_logs) + 1
             /\ activity_logs'[Len(activity_logs')].task_id = t]_vars

\* C15: a Task with all three timestamps set has
\* assigned_at <= picked_up_at <= delivered_at.
C15_TimestampsOrdered ==
  \A t \in DOMAIN tasks :
    (/\ tasks[t].assigned_at # NULL
     /\ tasks[t].picked_up_at # NULL
     /\ tasks[t].delivered_at # NULL)
      => (/\ tasks[t].assigned_at <= tasks[t].picked_up_at
          /\ tasks[t].picked_up_at <= tasks[t].delivered_at)

\* C20: a volunteer's points are 15 for each delivered Task assigned to
\* them, however often update_task(delivered) was requested.
C20_DeliveryPointsOncePerTask ==
  \A u \in UserIds :
    IsVolunteer(u) =>
      points[u] = 15 * Cardinality({ t \in DOMAIN tasks :
                                       /\ tasks[t].volunteer_id = u
                                       /\ tasks[t].status = "delivered" })

\* Status strings other than picked_up and delivered.
OtherStatuses == {"created", "assigned", "verified"}

\* C16: update_task by the volunteer the Task is assigned to, with a status
\* other than picked_up and delivered, answers Invalid status and leaves the
\* store as it was.
C16_InvalidStatusChangesNothing ==
  [][\A u \in UserIds, t \in DOMAIN tasks, s \in OtherStatuses :
        (update_task(u, t, s) /\ IsVolunteer(u) /\ tasks[t].volunteer_id = u)
          => (response'.outcome = "Invalid status" /\ UNCHANGED store)]_vars

\* C16 witness: Invalid status was answered on a Task that went through a
\* delivery and is held by a volunteer.
C16_Witness ==
  /\ response.outcome = "Invalid status"
  /\ \E t \in DOMAIN tasks :
       tasks[t].volunteer_id # NULL /\ tasks[t].status = "delivered"

\* What a rejected accept_task or update_task request is told.
Rejections ==
  {"Access denied", "Task already assigned", "Not your task", "Invalid status"}

\* C17: an accept_task or update_task request that succeeds appends exactly
\* one ActivityLog row, for its Task and with the acting user as actor; one
\* that is rejected appends none; no request changes or removes a row.
C17_OneLogRowPerSuccess ==
  [][/\ Len(activity_logs') >= Len(activity_logs)
     /\ \A i \in DOMAIN activity_logs : activity_logs'[i] = activity_logs[i]
     /\ \A u \in UserIds, t \in DOMAIN tasks :
          /\ (accept_task(u, t) /\ IsVolunteer(u) /\ tasks[t].volunteer_id = NULL)
               => (/\ Len(activity_logs') = Len(activity_logs) + 1
                   /\ activity_logs'[Len(activity_logs')].task_id = t
                   /\ activity_logs'[Len(activity_logs')].actor_id = u)
          /\ \A s \in {"picked_up", "delivered"} :
               (update_task(u, t, s) /\ IsVolunteer(u) /\ tasks[t].volunteer_id = u)
                 => (/\ Len(activity_logs') = Len(activity_logs) + 1
                     /\ activity_logs'[Len(activity_logs')].task_id = t
                     /\ activity_logs'[Len(activity_logs')].actor_id = u)
          /\ \A s \in StatusInputs :
               ((accept_task(u, t) \/ update_task(u, t, s))
                  /\ response'.outcome \in Rejections)
                 => activity_logs' = activity_logs]_vars

\* C17 witness: the log holds an accept row and a pickup row by the same
\* volunteer, and the last request was rejected.
C17_Witness ==
  /\ response.outcome \in Rejections
  /\ \E i, j \in DOMAIN activity_logs :
       /\ i < j
       /\ activity_logs[i].action = "Task accepted by volunteer"
       /\ activity_logs[j].action = "Items picked up"
       /\ activity_logs[i].actor_id = activity_logs[j].actor_id
       /\ activity_logs[i].task_id = activity_logs[j].task_id

\* C18: accept_task and update_task by a user who is not a volunteer,
\* create_donation by a user who is not a donor and create_request by a user
\* who is not a receiver answer Access denied and leave the store as it was.
C18_RoleGating ==
  [][\A u \in UserIds :
        /\ ~IsVolunteer(u) =>
             \A t \in TaskIdInputs, s \in StatusInputs \cup OtherStatuses :
               (accept_task(u, t) \/ update_task(u, t, s))
                 => (response'.outcome = "Access denied" /\ UNCHANGED store)
        /\ Users[u].role # "donor" =>
             \A i \in ItemTypes, l \in FormLocations :
               create_donation(u, i, 5, l)
                 => (response'.outcome = "Access denied" /\ UNCHANGED store)
        /\ Users[u].role # "receiver" =>
             \A i \in ItemTypes, l \in FormLocations :
               create_request(u, i, l)
                 => (response'.outcome = "Access denied" /\ UNCHANGED store)]_vars

\* C18 witness: Access denied was answered while the store holds a Request
\* and a Task a volunteer has taken.
C18_Witness ==
  /\ response.outcome = "Access denied"
  /\ requests # <<>>
  /\ \E t \in DOMAIN tasks : tasks[t].volunteer_id # NULL

\* C19: with requests served one at a time, a Task is created exactly when
\* it has no volunteer, and the volunteer of an assigned, picked_up or
\* delivered Task is a user whose role is volunteer.
C19_CreatedIffNoVolunteer ==
  \A t \in DOMAIN tasks :
    /\ tasks[t].status = "created" <=> tasks[t].volunteer_id = NULL
    /\ tasks[t].status \in {"assigned", "picked_up", "delivered"} =>
         (tasks[t].volunteer_id \in UserIds /\ IsVolunteer(tasks[t].volunteer_id))

\* C19 witness: a Task has been taken and updated by a volunteer.
C19_Witness ==
  \E t \in DOMAIN tasks :
    /\ tasks[t].status \in {"picked_up", "delivered"}
    /\ tasks[t].volunteer_id # NULL

\* C21: a Request is fulfilled only if some Task whose request_id is that
\* Request currently has status delivered.
C21_FulfilledHasDeliveredTask ==
  \A q \in DOMAIN requests :
    requests[q].status = "fulfilled" =>
      \E t \in DOMAIN tasks :
        tasks[t].request_id = q /\ tasks[t].status = "delivered"

\* C22: each Donation has at most one Task and each Request is referenced
\* by at most one Task.
C22_OneTaskPerDonationAndRequest ==
  /\ \A d \in DOMAIN donations :
       Cardinality({ t \in DOMAIN tasks : tasks[t].donation_id = d }) <= 1
  /\ \A q \in DOMAIN requests :
       Cardinality({ t \in DOMAIN tasks : tasks[t].request_id = q }) <= 1

====
